---- MODULE Spec2Model ----
(***************************************************************************)
(* A model of p1204_3/utils.py: the command runner (run_cmd), the          *)
(* terminating assertions (assert_msg, assert_file), the file opener       *)
(* (file_open), the media prober (ffprobe) and the JSON persistence        *)
(* helpers (json_store, json_load).                                        *)
(*                                                                         *)
(* Every call is one action.  The variables hold the environment the call  *)
(* runs in (the programs on the execution path, the file system), the      *)
(* call that was made last (op, args), what it did (proc, stdout, logged,  *)
(* exited, exitCode) and how it ended (ret).                               *)
(*                                                                         *)
(* Text is a sequence of one-character strings, bytes are integers, and a  *)
(* Python value is a tagged record, so that a str and an int can be told   *)
(* apart and compared.                                                     *)
(***************************************************************************)
EXTENDS Integers, Sequences, FiniteSets, TLC

VARIABLES
    installed,  \* the programs that can be found on the execution path
    fs,         \* the file system: for each path, the file stored under it
    world,      \* what a program does when run: its exit status and output
    op,         \* the function called last ("none" before the first call)
    args,       \* the arguments of that call
    ret,        \* how that call ended: a value, None, an exception, an exit
    proc,       \* the subprocess that call tried to spawn, if any
    stdout,     \* the lines that call printed
    logged,     \* the records that call logged
    exited,     \* TRUE once sys.exit has ended the interpreter
    exitCode,   \* the exit status handed to sys.exit
    opened,     \* the opener that call handed the file name to, if any
    stored      \* history: the object last handed to json_store, per path

vars == <<installed, fs, world, op, args, ret, proc, stdout, logged, exited, exitCode,
          opened, stored>>

(***************************************************************************)
(* Bounds of the model.                                                    *)
(***************************************************************************)
MaxOut == 2        \* bytes a modelled process writes to stdout+stderr
MaxExit == 1       \* largest exit status a modelled process ends with
MaxPieces == 3     \* pieces a file name handed to file_open is made of
MaxStreams == 2    \* streams in a modelled probe output
MaxVal == 2        \* distinct values a stream field takes
MaxNum == 5        \* largest numerator of a modelled frame rate
MaxKeys == 2       \* keys of the top-level mapping handed to json_store

(***************************************************************************)
(* Text helpers.                                                           *)
(***************************************************************************)
RECURSIVE Concat(_)
Concat(ss) == IF ss = <<>> THEN <<>> ELSE Head(ss) \o Concat(Tail(ss))

RECURSIVE Join(_, _)
\* sep.join(ss)
Join(sep, ss) ==
    IF ss = <<>> THEN <<>>
    ELSE IF Len(ss) = 1 THEN ss[1]
    ELSE ss[1] \o sep \o Join(sep, Tail(ss))

\* "sub in s" for Python strings
Contains(sub, s) ==
    \E i \in 1..(Len(s) - Len(sub) + 1) : SubSeq(s, i, i + Len(sub) - 1) = sub

SeqsUpTo(S, n) == UNION {[1..k -> S] : k \in 0..n}

Whitespace == {" ", "\n"}

(***************************************************************************)
(* Python values.                                                          *)
(***************************************************************************)
PyStr(cs) == [t |-> "str", cs |-> cs, i |-> 0, d |-> <<>>]
PyInt(n) == [t |-> "int", cs |-> <<>>, i |-> n, d |-> <<>>]
\* a dict: d maps each key, a Python value itself, to its value
PyDict(d) == [t |-> "dict", cs |-> <<>>, i |-> 0, d |-> d]

NoMsg == [prefix |-> "", cmd |-> <<>>, subject |-> <<>>, text |-> <<>>]
Msg(prefix) == [NoMsg EXCEPT !.prefix = prefix]

\* How a call ends.
RetNone == [kind |-> "none", exc |-> "", msg |-> NoMsg, value |-> <<>>]
RetValue(v) == [kind |-> "value", exc |-> "", msg |-> NoMsg, value |-> v]
Raise(exc, msg) == [kind |-> "raise", exc |-> exc, msg |-> msg, value |-> <<>>]
RetExit == [kind |-> "exit", exc |-> "SystemExit", msg |-> NoMsg, value |-> <<>>]

(***************************************************************************)
(* shlex.quote, as run_cmd uses it to echo a command.                      *)
(***************************************************************************)
\* The characters of the model's alphabet that shlex takes for safe
\* ([a-zA-Z0-9_@%+=:,./-]); a space and a quote are not among them.
SafeChars == {"a", "b", "c", "e", "f", "g", "h", "i", "l", "n", "o", "p", "r", "s",
              "t", "u", "x", "z", "-", "_", ".", "/", "1", "2"}

RECURSIVE EscapeQuotes(_)
\* s.replace("'", "'\"'\"'")
EscapeQuotes(s) ==
    IF s = <<>> THEN <<>>
    ELSE (IF Head(s) = "'" THEN <<"'", "\"", "'", "\"", "'">> ELSE <<Head(s)>>)
         \o EscapeQuotes(Tail(s))

Quote(s) ==
    IF s = <<>> THEN <<"'", "'">>
    ELSE IF \A i \in 1..Len(s) : s[i] \in SafeChars THEN s
    ELSE <<"'">> \o EscapeQuotes(s) \o <<"'">>

\* " ".join([shlex.quote(c) for c in cmd])
Render(cmd) == Join(<<" ">>, [i \in 1..Len(cmd) |-> Quote(cmd[i])])

(***************************************************************************)
(* Process output.  A process writes a sequence of units to the pipe that  *)
(* merges its stdout and stderr.  A unit is one byte, or the UTF-8 bytes   *)
(* of the JSON text of one probe document (used by ffprobe below).         *)
(***************************************************************************)
NoDoc == [hasStreams |-> FALSE, streams |-> <<>>, hasFormat |-> FALSE, format |-> <<>>]
ByteUnit(b) == [json |-> FALSE, b |-> b, c |-> "", doc |-> NoDoc]
JsonUnit(d) == [json |-> TRUE, b |-> 0, c |-> "", doc |-> d]
CharUnit(c) == [json |-> FALSE, b |-> 0, c |-> c, doc |-> NoDoc]

\* The bytes the modelled processes write: space, newline, "a", and 0xFF, a
\* byte that occurs in no UTF-8 text.
Bytes == {32, 10, 97, 255}

ValidByte(b) == b < 128
CharOf(b) == CASE b = 32 -> " " [] b = 10 -> "\n" [] OTHER -> "a"

\* bytes.decode("utf-8"): the text, or no text when a byte is not UTF-8
Decodable(out) == \A k \in 1..Len(out) : out[k].json \/ ValidByte(out[k].b)
Decode(out) ==
    [k \in 1..Len(out) |-> IF out[k].json THEN out[k] ELSE CharUnit(CharOf(out[k].b))]

ByteOutputs == {[k \in 1..Len(s) |-> ByteUnit(s[k])] : s \in SeqsUpTo(Bytes, MaxOut)}

(***************************************************************************)
(* run_cmd.  spawn is what the operating system does with the command:     *)
(* spawn.ok is FALSE when the program cannot be executed (check_output     *)
(* raises an OSError such as FileNotFoundError); otherwise the process     *)
(* runs to its end, writes spawn.out and exits with spawn.status.          *)
(* check_output is called without timeout and without preexec_fn, so it    *)
(* raises no SubprocessError other than CalledProcessError: the handler    *)
(* of line 55 is modelled for the outcome "suberr" (an error that carries  *)
(* output), which no modelled environment produces.                        *)
(***************************************************************************)
NoProc == [attempted |-> FALSE, started |-> FALSE, cmd |-> <<>>, status |-> 0, out |-> <<>>]

CmdMsg(prefix, cmd, text) == [NoMsg EXCEPT !.prefix = prefix, !.cmd = cmd, !.text = text]

run_cmd_echo(cmd, dry_run, verbose) ==
    IF dry_run \/ verbose THEN <<Render(cmd)>> ELSE <<>>

check_output(cmd, spawn) ==
    IF ~spawn.ok
    THEN [attempted |-> TRUE, started |-> FALSE, cmd |-> cmd, status |-> 0, out |-> <<>>]
    ELSE [attempted |-> TRUE, started |-> TRUE, cmd |-> cmd,
          status |-> spawn.status, out |-> spawn.out]

run_cmd_result(cmd, spawn) ==
    IF ~spawn.ok
    THEN \* an OSError is no SubprocessError: neither handler catches it
         Raise("FileNotFoundError", Msg("No such file or directory"))
    ELSE IF spawn.kind = "suberr"
    THEN Raise("Exception", CmdMsg("General error running command", cmd, Decode(spawn.out)))
    ELSE IF spawn.status # 0
    THEN IF Decodable(spawn.out)
         THEN Raise("Exception",
                    CmdMsg("Nonzero return status running command", cmd, Decode(spawn.out)))
         ELSE \* e.output.decode raises inside the handler
              Raise("UnicodeDecodeError", Msg("'utf-8' codec can't decode byte"))
    ELSE IF Decodable(spawn.out)
         THEN RetValue(Decode(spawn.out))
         ELSE Raise("UnicodeDecodeError", Msg("'utf-8' codec can't decode byte"))

\* run_cmd with the early return of line 49 lost: a dry run executes.
run_cmd_no_dry_return(cmd, dry_run, verbose, spawn) ==
    [stdout |-> run_cmd_echo(cmd, dry_run, verbose),
     proc |-> check_output(cmd, spawn),
     ret |-> run_cmd_result(cmd, spawn)]

\* The whole of run_cmd: what it prints, the process it spawns, how it ends.
run_cmd(cmd, dry_run, verbose, spawn) ==
    IF dry_run
    THEN [stdout |-> run_cmd_echo(cmd, dry_run, verbose), proc |-> NoProc, ret |-> RetNone]
    ELSE [stdout |-> run_cmd_echo(cmd, dry_run, verbose),
          proc |-> check_output(cmd, spawn),
          ret |-> run_cmd_result(cmd, spawn)]

\* What the operating system does with cmd: it fails to execute it when
\* its program is not on the path, and otherwise runs it to the exit status
\* and the output that behaviour, the way of the programs of this machine,
\* gives.
Spawn(cmd, progs, behaviour) ==
    IF cmd[1] \notin progs
    THEN [ok |-> FALSE, kind |-> "oserror", status |-> 0, out |-> <<>>]
    ELSE [ok |-> TRUE, kind |-> "exit", status |-> behaviour.status, out |-> behaviour.out]

Quiet == [status |-> 0, out |-> <<>>]
Worlds(outputs) == {[status |-> s, out |-> o] : s \in 0..MaxExit, o \in outputs}

(***************************************************************************)
(* The file system.  A file holds a complete JSON document, or some other  *)
(* content (empty, truncated, a media file).                               *)
(***************************************************************************)
NoFile == [exists |-> FALSE, complete |-> FALSE, text |-> <<>>]
OtherFile == [exists |-> TRUE, complete |-> FALSE, text |-> <<>>]
JsonFile(text) == [exists |-> TRUE, complete |-> TRUE, text |-> text]

\* The paths whose files the model tracks.
PathA == <<"a">>
PathB == <<"g", "z">>
Paths == {PathA, PathB}

NotStored == [called |-> FALSE, ok |-> FALSE, obj |-> <<>>]
NoOpen == [opener |-> "none", filename |-> <<>>, mode |-> <<>>, existed |-> FALSE]

\* os.path.isfile
isfile(files, filename) == filename \in DOMAIN files /\ files[filename].exists

(***************************************************************************)
(* assert_msg and assert_file.                                             *)
(***************************************************************************)
Messages == {"m1", "m2"}

\* sys.exit(0) of line 64
assert_exit_status == 0

assert_msg(check, fail_message) ==
    IF ~check
    THEN [logged |-> <<[level |-> "ERROR", msg |-> fail_message]>>,
          exited |-> TRUE, exitCode |-> assert_exit_status, ret |-> RetExit]
    ELSE [logged |-> <<>>, exited |-> FALSE, exitCode |-> 0, ret |-> RetNone]

assert_file(files, filename, fail_message) ==
    assert_msg(isfile(files, filename), fail_message)

(***************************************************************************)
(* The commands and programs of the model.                                 *)
(***************************************************************************)
Sh == <<"s", "h">>
Ffprobe == <<"f", "f", "p", "r", "o", "b", "e">>
Absent == <<"n", "o">>
Programs == {Sh, Ffprobe}

Cmds == { <<Absent>>,
          <<Sh, <<"-", "c">>, <<"a", " ", "b">>>>,
          <<Sh, <<"i", "t", "'", "s">>, <<>>>> }

(***************************************************************************)
(* The calls of run_cmd, assert_msg and assert_file.                       *)
(***************************************************************************)
\* The environment a script starts in.
Env ==
    /\ installed \in SUBSET Programs
    /\ fs \in [Paths -> {NoFile, OtherFile}]

\* Nothing has been called yet.
Fresh ==
    /\ op = "none"
    /\ ret = RetNone
    /\ proc = NoProc
    /\ stdout = <<>>
    /\ logged = <<>>
    /\ exited = FALSE
    /\ exitCode = 0
    /\ opened = NoOpen
    /\ stored = [p \in Paths |-> NotStored]

\* The calls a script makes: args.fn with the arguments in args, any number
\* of times.
RunCmdArgs ==
    {[fn |-> "run_cmd", cmd |-> cmd, dry_run |-> d, verbose |-> v] :
        cmd \in Cmds, d \in BOOLEAN, v \in BOOLEAN}
AssertMsgArgs ==
    {[fn |-> "assert_msg", check |-> c, fail_message |-> m] : c \in BOOLEAN, m \in Messages}
AssertFileArgs ==
    {[fn |-> "assert_file", filename |-> f, fail_message |-> m] : f \in Paths, m \in Messages}

\* The behaviour of the programs matters to run_cmd alone.
Init ==
    /\ Env
    /\ Fresh
    /\ args \in RunCmdArgs \cup AssertMsgArgs \cup AssertFileArgs
    /\ world \in Worlds(ByteOutputs)
    /\ args.fn # "run_cmd" => world = Quiet

RunCmdCall ==
    /\ ~exited
    /\ args.fn = "run_cmd"
    /\ LET r == run_cmd(args.cmd, args.dry_run, args.verbose,
                        Spawn(args.cmd, installed, world)) IN
          /\ op' = "run_cmd"
          /\ ret' = r.ret
          /\ proc' = r.proc
          /\ stdout' = r.stdout
    /\ logged' = <<>>
    /\ opened' = NoOpen
    /\ UNCHANGED <<installed, fs, world, args, exited, exitCode, stored>>

AssertEnds(r) ==
    /\ op' = args.fn
    /\ ret' = r.ret
    /\ logged' = r.logged
    /\ exited' = r.exited
    /\ exitCode' = r.exitCode
    /\ proc' = NoProc
    /\ stdout' = <<>>
    /\ opened' = NoOpen
    /\ UNCHANGED <<installed, fs, world, args, stored>>

AssertMsgCall ==
    /\ ~exited
    /\ args.fn = "assert_msg"
    /\ AssertEnds(assert_msg(args.check, args.fail_message))

AssertFileCall ==
    /\ ~exited
    /\ args.fn = "assert_file"
    /\ AssertEnds(assert_file(fs, args.filename, args.fail_message))

Next == RunCmdCall \/ AssertMsgCall \/ AssertFileCall

Spec == Init /\ [][Next]_vars

(***************************************************************************)
(* The errors of the command runner.  The code raises the built-in         *)
(* Exception for both; the text of the message tells them apart.           *)
(***************************************************************************)
IsCommandFailed(r) ==
    r.kind = "raise" /\ r.exc = "Exception"
    /\ r.msg.prefix = "Nonzero return status running command"

IsCommandError(r) ==
    r.kind = "raise" /\ r.exc = "Exception"
    /\ r.msg.prefix = "General error running command"

\* C1: whenever the spawned process of a run_cmd call exits with a non-zero
\* status, the call fails with CommandFailed, and the error carries the
\* command and the whole combined output of the process.
C1_NonzeroExitIsCommandFailed ==
    (op = "run_cmd" /\ proc.started /\ proc.status # 0) =>
        /\ IsCommandFailed(ret)
        /\ ret.msg.cmd = args.cmd
        /\ Decodable(proc.out) => ret.msg.text = Decode(proc.out)

\* The part of C1 the code keeps: when the output is UTF-8 text.
C1_DecodableOutputIsCarried ==
    (op = "run_cmd" /\ proc.started /\ proc.status # 0 /\ Decodable(proc.out)) =>
        /\ IsCommandFailed(ret)
        /\ ret.msg.cmd = args.cmd
        /\ ret.msg.text = Decode(proc.out)

\* C2: whenever the process of a run_cmd call cannot be spawned, the call
\* fails with CommandError (not CommandFailed), the error carries the
\* command, and no other kind of error escapes.
C2_SpawnFailureIsCommandError ==
    (op = "run_cmd" /\ proc.attempted /\ ~proc.started) =>
        /\ IsCommandError(ret)
        /\ ~IsCommandFailed(ret)
        /\ ret.msg.cmd = args.cmd

\* C3: a run_cmd call with dry_run returns None, spawns no process, raises
\* no error, logs nothing and does not end the interpreter, whether or not
\* the program exists and whatever verbose is.
C3_DryRunDoesNothing ==
    (op = "run_cmd" /\ args.dry_run) =>
        /\ ret = RetNone
        /\ ~proc.attempted
        /\ proc = NoProc
        /\ logged = <<>>
        /\ ~exited

C3_Witness ==
    /\ op = "run_cmd" /\ args.dry_run /\ args.verbose
    /\ args.cmd[1] \notin installed
    /\ stdout # <<>>

\* C8: assert_msg with a false condition logs the message as an error and
\* ends the process with a non-success exit status; with a true condition
\* it logs nothing, does not end the process and returns; assert_file is
\* assert_msg of "the path is an existing file".
AssertOutcome(check, m) ==
    IF ~check
    THEN logged = <<[level |-> "ERROR", msg |-> m]>> /\ exited /\ exitCode # 0
    ELSE logged = <<>> /\ ~exited /\ ret = RetNone

C8_AssertTerminatesWithFailure ==
    /\ op = "assert_msg" => AssertOutcome(args.check, args.fail_message)
    /\ op = "assert_file" => AssertOutcome(isfile(fs, args.filename), args.fail_message)

\* The part of C8 the code keeps: the message is logged and the process ends.
C8_AssertLogsAndTerminates ==
    /\ (op = "assert_msg" /\ ~args.check) =>
          logged = <<[level |-> "ERROR", msg |-> args.fail_message]>> /\ exited
    /\ (op = "assert_msg" /\ args.check) => logged = <<>> /\ ~exited /\ ret = RetNone
    /\ op = "assert_file" =>
          IF isfile(fs, args.filename)
          THEN logged = <<>> /\ ~exited /\ ret = RetNone
          ELSE logged = <<[level |-> "ERROR", msg |-> args.fail_message]>> /\ exited

(***************************************************************************)
(* file_open.  The openers are modelled by what they do with the mode:     *)
(* bz2.open and gzip.open refuse a mode with both "t" and "b", give a text *)
(* handle for a mode with "t" and a binary one otherwise; the built-in     *)
(* open gives a text handle unless the mode has "b".  Reading needs the    *)
(* file to exist; "w" creates or truncates it, "a" creates it.             *)
(***************************************************************************)
Handle(opener, mode, text) ==
    [opener |-> opener, mode |-> mode, text |-> text,
     writing |-> Contains(<<"w">>, mode) \/ Contains(<<"a">>, mode)]

\* What opening does to the file: file is the file before, the result is the
\* file after.
OpenEffect(file, mode) ==
    IF Contains(<<"w">>, mode) THEN OtherFile
    ELSE IF Contains(<<"a">>, mode) /\ ~file.exists THEN OtherFile
    ELSE file

OpenFails(file, mode) ==
    ~file.exists /\ ~Contains(<<"w">>, mode) /\ ~Contains(<<"a">>, mode)

\* bz2.open(filename, mode) and gzip.open(filename, mode)
compressed_open(opener, file, mode) ==
    IF Contains(<<"t">>, mode) /\ Contains(<<"b">>, mode)
    THEN [ret |-> Raise("ValueError", Msg("Invalid mode")), file |-> file]
    ELSE IF OpenFails(file, mode)
    THEN [ret |-> Raise("FileNotFoundError", Msg("No such file or directory")),
          file |-> file]
    ELSE [ret |-> RetValue(Handle(opener, mode, Contains(<<"t">>, mode))),
          file |-> OpenEffect(file, mode)]

\* open(filename, mode)
plain_open(file, mode) ==
    IF OpenFails(file, mode)
    THEN [ret |-> Raise("FileNotFoundError", Msg("No such file or directory")),
          file |-> file]
    ELSE [ret |-> RetValue(Handle("plain", mode, ~Contains(<<"b">>, mode))),
          file |-> OpenEffect(file, mode)]

\* The choice of file_open with the order of its two tests exchanged.
select_opener_gz_first(filename) ==
    IF Contains(<<"g", "z">>, filename) THEN "gzip"
    ELSE IF Contains(<<"b", "z", "2">>, filename) THEN "bz2"
    ELSE "plain"

\* The choice file_open makes, lines 74 and 76.
select_opener(filename) ==
    IF Contains(<<"b", "z", "2">>, filename) THEN "bz2"
    ELSE IF Contains(<<"g", "z">>, filename) THEN "gzip"
    ELSE "plain"

\* The mode file_open hands to a compressed opener: mode + "t".
compressed_mode(mode) == mode \o <<"t">>

\* file is the file under filename before the call.
file_open(file, filename, mode) ==
    LET opener == select_opener(filename)
        passed == IF opener = "plain" THEN mode ELSE compressed_mode(mode)
        r == IF opener = "plain" THEN plain_open(file, passed)
             ELSE compressed_open(opener, file, passed)
    IN  [ret |-> r.ret, file |-> r.file,
         opened |-> [opener |-> opener, filename |-> filename, mode |-> passed,
                    existed |-> file.exists]]

\* The file names of the model: up to MaxPieces pieces put side by side,
\* so that "bz2" and "gz" occur at the start, in the middle and at the end
\* of a name, both at once, in part only ("bz", "z2"), and across pieces.
Pieces == {<<"b", "z", "2">>, <<"g", "z">>, <<"g">>, <<"z">>, <<"a">>}
FileNames == {Concat(ps) : ps \in SeqsUpTo(Pieces, MaxPieces)} \ {<<>>}

Modes == {<<"r">>, <<"w">>, <<"a">>, <<"r", "b">>}

\* The files a name can stand for: the tracked file, or for a name the
\* model does not track, a file that exists or not.
FilesUnder(filename) ==
    IF filename \in Paths THEN {fs[filename]} ELSE {NoFile, OtherFile}

FileOpenArgs ==
    {[fn |-> "file_open", filename |-> f, mode |-> m] : f \in FileNames, m \in Modes}

InitOpen ==
    /\ Env
    /\ Fresh
    /\ args \in FileOpenArgs
    /\ world = Quiet

FileOpenCall ==
    /\ ~exited
    /\ args.fn = "file_open"
    /\ \E file \in FilesUnder(args.filename) :
          LET r == file_open(file, args.filename, args.mode) IN
          /\ op' = "file_open"
          /\ ret' = r.ret
          /\ opened' = r.opened
          /\ fs' = IF args.filename \in Paths
                   THEN [fs EXCEPT ![args.filename] = r.file] ELSE fs
    /\ proc' = NoProc
    /\ stdout' = <<>>
    /\ logged' = <<>>
    /\ UNCHANGED <<installed, world, args, exited, exitCode, stored>>

NextOpen == FileOpenCall

SpecOpen == InitOpen /\ [][NextOpen]_vars

\* C10: file_open picks the opener by substring of the file name: bzip2 if
\* the name contains "bz2", else gzip if it contains "gz", else the plain
\* opener, "bz2" winning when both occur; for a read or write mode the
\* opener is handed a text mode and the handle it returns is a text handle
\* that reads or writes as requested.
TextModes == {<<"r">>, <<"w">>, <<"a">>}

C10_OpenerBySubstring ==
    op = "file_open" =>
        /\ opened.filename = args.filename
        /\ opened.opener =
              (IF Contains(<<"b", "z", "2">>, args.filename) THEN "bz2"
               ELSE IF Contains(<<"g", "z">>, args.filename) THEN "gzip"
               ELSE "plain")
        /\ args.mode \in TextModes =>
              /\ ret.kind = "value" <=> (opened.existed \/ args.mode # <<"r">>)
              /\ ret.kind = "value" =>
                    /\ ret.value.opener = opened.opener
                    /\ ret.value.text
                    /\ ret.value.writing = (args.mode # <<"r">>)

\* A name with both substrings, "gz" first, opened for writing.
C10_Witness ==
    /\ op = "file_open"
    /\ args.filename = <<"g", "z", "b", "z", "2">>
    /\ args.mode = <<"w">>
    /\ ret.kind = "value" /\ ret.value.opener = "bz2" /\ ret.value.text

\* A name with "gz" in the middle and no suffix, opened for reading.
C10_WitnessGz ==
    /\ op = "file_open"
    /\ args.filename = <<"a", "g", "z", "a">>
    /\ args.mode = <<"r">>
    /\ ret.kind = "value" /\ ret.value.opener = "gzip" /\ ret.value.text

(***************************************************************************)
(* ffprobe.                                                                *)
(***************************************************************************)
\* Decimal text of a natural number, and the number a decimal text denotes.
Digits == <<"0", "1", "2", "3", "4", "5", "6", "7", "8", "9">>
DigitVal(c) == CHOOSE k \in 0..9 : Digits[k + 1] = c
IsDigit(c) == \E k \in 1..10 : Digits[k] = c

RECURSIVE IntText(_)
IntText(n) == IF n < 10 THEN <<Digits[n + 1]>> ELSE IntText(n \div 10) \o <<Digits[(n % 10) + 1]>>

RECURSIVE ParseInt(_)
ParseInt(cs) ==
    IF Len(cs) = 1 THEN DigitVal(cs[1])
    ELSE 10 * ParseInt(SubSeq(cs, 1, Len(cs) - 1)) + DigitVal(cs[Len(cs)])

\* eval of a text "num/den": the two integers of the true division, which
\* raises ZeroDivisionError when den is 0.  For the integers of the model
\* the quotient Python computes in floating point rounds as the exact one.
SlashAt(cs) == CHOOSE k \in 1..Len(cs) : cs[k] = "/"
eval_rational(cs) ==
    LET k == SlashAt(cs) IN
    [num |-> ParseInt(SubSeq(cs, 1, k - 1)), den |-> ParseInt(SubSeq(cs, k + 1, Len(cs)))]

\* Python's round of num/den (num >= 0, den > 0): to the nearest integer,
\* and to the even one of the two when num/den lies halfway.
round(num, den) ==
    LET q == num \div den
        r == num % den
    IN  IF 2 * r < den THEN q
        ELSE IF 2 * r > den THEN q + 1
        ELSE IF q % 2 = 0 THEN q ELSE q + 1

\* The recognized fields, in the order of the dict of line 107.
Needed == <<"pix_fmt", "bits_per_raw_sample", "width", "height", "avg_frame_rate",
            "codec_name", "profile">>
NeededKeys == {Needed[k] : k \in 1..Len(Needed)}
Unknown == PyStr(<<"u", "n", "k", "n", "o", "w", "n">>)
needed_default == [n \in NeededKeys |-> Unknown]

\* Lines 117-121 for one stream: acc is [ok, needed]; ok turns FALSE when
\* the frame rate of the stream has a zero denominator.
RECURSIVE copy_fields(_, _, _)
copy_fields(acc, stream, k) ==
    IF k > Len(Needed) \/ ~acc.ok THEN acc
    ELSE LET n == Needed[k] IN
         IF n \notin DOMAIN stream THEN copy_fields(acc, stream, k + 1)
         ELSE IF n # "avg_frame_rate"
         THEN copy_fields([acc EXCEPT !.needed[n] = stream[n]], stream, k + 1)
         ELSE LET q == eval_rational(stream[n].cs) IN
              IF q.den = 0
              THEN [acc EXCEPT !.ok = FALSE, !.needed[n] = stream[n]]
              ELSE copy_fields([acc EXCEPT !.needed[n] = PyInt(round(q.num, q.den))],
                               stream, k + 1)

\* Line 116: every stream of the list, in order.
RECURSIVE copy_streams(_, _)
copy_streams(acc, streams) ==
    IF streams = <<>> \/ ~acc.ok THEN acc
    ELSE copy_streams(copy_fields(acc, Head(streams), 1), Tail(streams))

FormatGet(doc, key, default) ==
    IF doc.hasFormat /\ key \in DOMAIN doc.format THEN doc.format[key] ELSE default

\* Lines 122-125.
with_aliases(needed, doc) ==
    [n \in NeededKeys \cup {"bitrate", "codec", "duration", "video_profile"} |->
        CASE n = "bitrate" -> FormatGet(doc, "bit_rate", PyInt(-1))
          [] n = "codec" -> needed["codec_name"]
          [] n = "duration" -> FormatGet(doc, "duration", PyInt(0))
          [] n = "video_profile" -> needed["profile"]
          [] OTHER -> needed[n]]

\* Lines 107-126 on the parsed output.
extract(doc) ==
    IF ~doc.hasStreams THEN Raise("KeyError", Msg("streams"))
    ELSE LET acc == copy_streams([ok |-> TRUE, needed |-> needed_default], doc.streams) IN
         IF ~acc.ok THEN Raise("ZeroDivisionError", Msg("division by zero"))
         ELSE RetValue(with_aliases(acc.needed, doc))

IsSpace(u) == ~u.json /\ u.c \in Whitespace

\* str.strip() left out: the text as it is.
strip_nothing(text) == text

RECURSIVE lstrip(_)
lstrip(text) ==
    IF text # <<>> /\ IsSpace(Head(text)) THEN lstrip(Tail(text)) ELSE text
RECURSIVE rstrip(_)
rstrip(text) ==
    IF text # <<>> /\ IsSpace(text[Len(text)]) THEN rstrip(SubSeq(text, 1, Len(text) - 1))
    ELSE text

\* str.strip()
strip(text) == rstrip(lstrip(text))

\* json.loads of a stripped text: the document when the text is the JSON
\* text of one document and nothing else.
IsJson(text) == Len(text) = 1 /\ text[1].json

FfprobeCmd(filename) ==
    <<Ffprobe,
      <<"-", "l", "o", "g", "l", "e", "v", "e", "l">>, <<"e", "r", "r", "o", "r">>,
      <<"-", "s", "h", "o", "w", "_", "f", "o", "r", "m", "a", "t">>,
      <<"-", "s", "e", "l", "e", "c", "t", "_", "s", "t", "r", "e", "a", "m", "s">>,
      <<"v", ":", "0">>,
      <<"-", "s", "h", "o", "w", "_", "s", "t", "r", "e", "a", "m", "s">>,
      <<"-", "o", "f">>, <<"j", "s", "o", "n">>,
      filename>>

FileMsg(prefix, filename) == [NoMsg EXCEPT !.prefix = prefix, !.subject = filename]

\* Lines 100-126: the probe is run and its output read.
ffprobe_run(filename, spawn) ==
    LET r == run_cmd(FfprobeCmd(filename), FALSE, FALSE, spawn)
        res == strip(r.ret.value)
    IN  IF r.ret.kind = "raise" THEN r
        ELSE IF Len(res) = 0
        THEN [r EXCEPT !.ret = Raise("Exception",
                 FileMsg("is somehow not valid, so ffprobe could not extract anything",
                         filename))]
        ELSE IF ~IsJson(res)
        THEN [r EXCEPT !.ret = Raise("JSONDecodeError", Msg("Expecting value"))]
        ELSE [r EXCEPT !.ret = extract(res[1].doc)]

NotRun(r) == [stdout |-> <<>>, proc |-> NoProc, ret |-> r]

\* ffprobe with the test of line 87 left out.
ffprobe_no_isfile(progs, files, filename, spawn) ==
    IF Ffprobe \notin progs
    THEN NotRun(Raise("Exception",
                      Msg("you need to have ffprobe installed, please read README.md.")))
    ELSE ffprobe_run(filename, spawn)

\* shutil.which("ffprobe") is None when the program is not on the path.
ffprobe(progs, files, filename, spawn) ==
    IF Ffprobe \notin progs
    THEN NotRun(Raise("Exception",
                      Msg("you need to have ffprobe installed, please read README.md.")))
    ELSE IF ~isfile(files, filename)
    THEN NotRun(Raise("Exception", FileMsg("is not a valid file", filename)))
    ELSE ffprobe_run(filename, spawn)

(***************************************************************************)
(* The outputs of the modelled probe.                                      *)
(***************************************************************************)
Dens == {0, 1, 2}
RateTexts ==
    {IntText(n) \o <<"/">> \o IntText(d) : n \in 0..MaxNum, d \in Dens}
    \cup {IntText(30000) \o <<"/">> \o IntText(1001)}

FieldVals == {PyInt(v) : v \in 1..MaxVal}

FullStream(v) ==
    [n \in NeededKeys |->
        IF n = "avg_frame_rate" THEN PyStr(IntText(30000) \o <<"/">> \o IntText(1001)) ELSE v]

StreamChoices ==
    {<<>>}
    \cup {[n \in {f} |-> v] : f \in {"width", "codec_name"}, v \in FieldVals}
    \cup {[n \in {"avg_frame_rate"} |-> PyStr(t)] : t \in RateTexts}
    \cup {FullStream(v) : v \in FieldVals}

FormatChoices ==
    { [hasFormat |-> FALSE, format |-> <<>>],
      [hasFormat |-> TRUE, format |-> [n \in {"bit_rate"} |-> PyStr(<<"1">>)]],
      [hasFormat |-> TRUE,
       format |-> [n \in {"bit_rate", "duration"} |-> PyStr(<<"2">>)]] }

ProbeDocs ==
    {[hasStreams |-> TRUE, streams |-> ss, hasFormat |-> f.hasFormat, format |-> f.format] :
        ss \in SeqsUpTo(StreamChoices, MaxStreams), f \in FormatChoices}
    \cup {NoDoc}

ProbeOutputs ==
    ByteOutputs
    \cup {<<JsonUnit(d)>> : d \in ProbeDocs}
    \cup {<<ByteUnit(10), JsonUnit(NoDoc), ByteUnit(b)>> : b \in Bytes}

FfprobeArgs == {[fn |-> "ffprobe", filename |-> f] : f \in Paths}

\* What the probe does: it ends well with any of the outputs, or badly
\* with some bytes of complaint.
ProbeWorlds ==
    {[status |-> 0, out |-> o] : o \in ProbeOutputs}
    \cup {[status |-> s, out |-> o] : s \in 1..MaxExit, o \in ByteOutputs}

\* The behaviour of the probe matters only where ffprobe gets to run it.
InitProbe ==
    /\ installed \in SUBSET {Ffprobe}
    /\ fs = [p \in Paths |-> IF p = PathA THEN OtherFile ELSE NoFile]
    /\ Fresh
    /\ args \in FfprobeArgs
    /\ world \in ProbeWorlds
    /\ (Ffprobe \notin installed \/ ~isfile(fs, args.filename)) => world = Quiet

FfprobeCall ==
    /\ ~exited
    /\ args.fn = "ffprobe"
    /\ LET r == ffprobe(installed, fs, args.filename,
                        Spawn(FfprobeCmd(args.filename), installed, world)) IN
          /\ op' = "ffprobe"
          /\ ret' = r.ret
          /\ proc' = r.proc
          /\ stdout' = r.stdout
    /\ logged' = <<>>
    /\ opened' = NoOpen
    /\ UNCHANGED <<installed, fs, world, args, exited, exitCode, stored>>

NextProbe == FfprobeCall

SpecProbe == InitProbe /\ [][NextProbe]_vars

(***************************************************************************)
(* The errors of the media prober, told apart by their messages.           *)
(***************************************************************************)
IsToolMissing(r) ==
    r.kind = "raise" /\ r.exc = "Exception"
    /\ r.msg.prefix = "you need to have ffprobe installed, please read README.md."

IsFileNotFound(r) ==
    r.kind = "raise" /\ r.exc = "Exception" /\ r.msg.prefix = "is not a valid file"

IsProbeEmpty(r) ==
    r.kind = "raise" /\ r.exc = "Exception"
    /\ r.msg.prefix = "is somehow not valid, so ffprobe could not extract anything"

\* C4: for every path that is not an existing file, ffprobe fails with
\* FileNotFound and has spawned no subprocess, in every environment, the
\* one without the ffprobe tool included.
C4_MissingFileIsFileNotFound ==
    (op = "ffprobe" /\ ~isfile(fs, args.filename)) =>
        IsFileNotFound(ret) /\ ~proc.attempted

\* C4 as amended: for every path that is not an existing file, ffprobe
\* fails and has spawned no subprocess; the error is FileNotFound, naming
\* the path, where the ffprobe tool is on the path, and ToolMissing where
\* it is not.
C4_MissingFileFailsBeforeSpawn ==
    (op = "ffprobe" /\ ~isfile(fs, args.filename)) =>
        /\ ~proc.attempted
        /\ IF Ffprobe \in installed
           THEN IsFileNotFound(ret) /\ ret.msg.subject = args.filename
           ELSE IsToolMissing(ret)

C4_Witness ==
    /\ op = "ffprobe" /\ ~isfile(fs, args.filename)
    /\ Ffprobe \in installed
    /\ IsFileNotFound(ret)

\* The document ffprobe reads from the output of the probe, if it reads one.
Parses(out) == Decodable(out) /\ IsJson(strip(Decode(out)))
Parsed(out) == strip(Decode(out))[1].doc

ProbeRead ==
    /\ op = "ffprobe" /\ proc.started /\ proc.status = 0
    /\ Parses(proc.out) /\ Parsed(proc.out).hasStreams

Abs(x) == IF x < 0 THEN -x ELSE x
\* r is an integer nearest to num/den
Nearest(r, num, den) == den > 0 /\ 2 * Abs(r * den - num) <= den

\* C5: whenever the first stream of the probe output has an avg_frame_rate
\* "num/den", the avg_frame_rate of the result of ffprobe is the integer
\* nearest to num/den, and a zero denominator gives no result.
C5_FrameRateOfFirstStream ==
    (/\ ProbeRead
     /\ Parsed(proc.out).streams # <<>>
     /\ "avg_frame_rate" \in DOMAIN Parsed(proc.out).streams[1]
     /\ ret.kind = "value") =>
        LET q == eval_rational(Parsed(proc.out).streams[1]["avg_frame_rate"].cs) IN
        /\ ret.value["avg_frame_rate"].t = "int"
        /\ Nearest(ret.value["avg_frame_rate"].i, q.num, q.den)

\* The part of C5 the code keeps: an output of one stream.
C5_FrameRateOfOnlyStream ==
    (/\ ProbeRead
     /\ Len(Parsed(proc.out).streams) = 1
     /\ "avg_frame_rate" \in DOMAIN Parsed(proc.out).streams[1]
     /\ ret.kind = "value") =>
        LET q == eval_rational(Parsed(proc.out).streams[1]["avg_frame_rate"].cs) IN
        /\ ret.value["avg_frame_rate"].t = "int"
        /\ Nearest(ret.value["avg_frame_rate"].i, q.num, q.den)

\* What C6 asks of a field: the value the stream has, the frame rate as an
\* integer nearest to it.
HoldsField(n, got, raw) ==
    IF n = "avg_frame_rate"
    THEN LET q == eval_rational(raw.cs) IN got.t = "int" /\ Nearest(got.i, q.num, q.den)
    ELSE got = raw

\* C6: for every parsed probe output and each of the seven fields, the
\* result of ffprobe holds the value the first stream of the list has for
\* the field, and "unknown" if it has none; later streams and an empty
\* list change nothing of this.
C6_FieldsOfFirstStream ==
    (ProbeRead /\ ret.kind = "value") =>
        \A n \in NeededKeys :
            LET streams == Parsed(proc.out).streams IN
            IF streams # <<>> /\ n \in DOMAIN streams[1]
            THEN HoldsField(n, ret.value[n], streams[1][n])
            ELSE ret.value[n] = Unknown

\* The part of C6 the code keeps: an output of at most one stream.
C6_FieldsOfOnlyStream ==
    (ProbeRead /\ ret.kind = "value" /\ Len(Parsed(proc.out).streams) <= 1) =>
        \A n \in NeededKeys :
            LET streams == Parsed(proc.out).streams IN
            IF streams # <<>> /\ n \in DOMAIN streams[1]
            THEN HoldsField(n, ret.value[n], streams[1][n])
            ELSE ret.value[n] = Unknown

\* C7: when the tool is installed, the path is an existing file and the
\* probe ends well with an empty or whitespace-only output, ffprobe fails
\* with ProbeEmpty, naming the path: it does not try to parse the output
\* and returns no result.
OnlySpace(out) == \A k \in 1..Len(out) : ~out[k].json /\ out[k].b \in {32, 10}

C7_EmptyOutputIsProbeEmpty ==
    (op = "ffprobe" /\ proc.started /\ proc.status = 0 /\ OnlySpace(proc.out)) =>
        /\ IsProbeEmpty(ret)
        /\ ret.msg.subject = args.filename

C7_Witness ==
    /\ op = "ffprobe" /\ proc.started /\ proc.status = 0
    /\ Ffprobe \in installed /\ isfile(fs, args.filename)
    /\ proc.out = <<ByteUnit(10), ByteUnit(32)>>
    /\ IsProbeEmpty(ret)

(***************************************************************************)
(* json_store and json_load.  The text json.dump writes is modelled by     *)
(* its structure: a number, a string, or an object, the sequence of its    *)
(* members in the order written, each a name (always a string) and a       *)
(* value.                                                                  *)
(***************************************************************************)
JNum(n) == [t |-> "number", n |-> n, cs |-> <<>>, members |-> <<>>]
JString(cs) == [t |-> "string", n |-> 0, cs |-> cs, members |-> <<>>]
JObject(members) == [t |-> "object", n |-> 0, cs |-> <<>>, members |-> members]

\* Code points of the characters of the modelled keys.
CodePoint(c) == IF IsDigit(c) THEN 48 + DigitVal(c) ELSE 97

RECURSIVE StrLess(_, _)
\* s < t for Python strings
StrLess(s, t) ==
    IF t = <<>> THEN FALSE
    ELSE IF s = <<>> THEN TRUE
    ELSE IF Head(s) # Head(t) THEN CodePoint(Head(s)) < CodePoint(Head(t))
    ELSE StrLess(Tail(s), Tail(t))

\* k1 < k2 for two keys of one type
KeyLess(k1, k2) == IF k1.t = "int" THEN k1.i < k2.i ELSE StrLess(k1.cs, k2.cs)

\* sorted(dct.items()) raises TypeError when it has to compare an int key
\* with a str key.
Sortable(keys) == \A k1, k2 \in keys : k1.t = k2.t

RECURSIVE sorted(_)
sorted(keys) ==
    IF keys = {} THEN <<>>
    ELSE LET least == CHOOSE k \in keys : \A other \in keys \ {k} : KeyLess(k, other)
         IN  <<least>> \o sorted(keys \ {least})

\* The name json.dump writes for a key: a str as it is, an int in decimal.
key_text(k) == IF k.t = "int" THEN IntText(k.i) ELSE k.cs

RECURSIVE dumpable(_)
\* json.dump gets through v without an error
dumpable(v) ==
    v.t = "dict" => (Sortable(DOMAIN v.d) /\ \A k \in DOMAIN v.d : dumpable(v.d[k]))

RECURSIVE dumps(_)
\* json.dump(v, indent=4, sort_keys=True), for a v it gets through
dumps(v) ==
    IF v.t = "int" THEN JNum(v.i)
    ELSE IF v.t = "str" THEN JString(v.cs)
    ELSE LET ks == sorted(DOMAIN v.d) IN
         JObject([j \in 1..Len(ks) |-> [name |-> key_text(ks[j]), value |-> dumps(v.d[ks[j]])]])

RECURSIVE loads(_)
\* json.load: an object becomes a dict with str keys, the last member of a
\* name giving its value
loads(text) ==
    IF text.t = "number" THEN PyInt(text.n)
    ELSE IF text.t = "string" THEN PyStr(text.cs)
    ELSE LET ms == text.members
             names == {ms[j].name : j \in 1..Len(ms)}
             last(name) == CHOOSE j \in 1..Len(ms) :
                              /\ ms[j].name = name
                              /\ \A l \in (j + 1)..Len(ms) : ms[l].name # name
         IN  PyDict([k \in {PyStr(name) : name \in names} |-> loads(ms[last(k.cs)].value)])

\* json_store with the file opened for appending: what the file held stays.
json_store_append(files, outputfile, jsonobject) ==
    IF ~dumpable(jsonobject)
    THEN [ret |-> Raise("TypeError", Msg("'<' not supported between instances")),
          file |-> OtherFile]
    ELSE [ret |-> RetNone,
          file |-> IF files[outputfile].exists THEN OtherFile
                   ELSE JsonFile(dumps(jsonobject))]

\* open(outputfile, "w") empties the file; json.dump then writes the text,
\* or a part of it up to the object whose keys do not sort.
json_store(files, outputfile, jsonobject) ==
    IF ~dumpable(jsonobject)
    THEN [ret |-> Raise("TypeError", Msg("'<' not supported between instances")),
          file |-> OtherFile]
    ELSE [ret |-> RetNone, file |-> JsonFile(dumps(jsonobject))]

json_load(files, jsonfile) ==
    IF ~files[jsonfile].exists
    THEN Raise("FileNotFoundError", Msg("No such file or directory"))
    ELSE IF ~files[jsonfile].complete
    THEN Raise("JSONDecodeError", Msg("Expecting value"))
    ELSE RetValue(loads(files[jsonfile].text))

(***************************************************************************)
(* The mappings handed to json_store: up to MaxKeys keys, ints and strs    *)
(* (the int 1 and the str "1" among them), the values ints, strs and       *)
(* mappings of one key.                                                    *)
(***************************************************************************)
KeyChoices == {PyInt(1), PyInt(2), PyStr(<<"1">>), PyStr(<<"a">>)}
Inner == {PyDict(<<>>)} \cup {PyDict([k \in {key} |-> PyInt(0)]) : key \in KeyChoices}
ValueChoices == {PyInt(0), PyStr(<<"a">>)} \cup Inner
Mappings ==
    {PyDict(d) : d \in UNION {[ks -> ValueChoices] :
                        ks \in {x \in SUBSET KeyChoices : Cardinality(x) <= MaxKeys}}}

JsonArgs ==
    {[fn |-> "json", outputfile |-> p, jsonobject |-> v, jsonfile |-> q] :
        p \in Paths, v \in Mappings, q \in Paths}

InitJson ==
    /\ installed = {}
    /\ fs \in [Paths -> {NoFile, OtherFile}]
    /\ Fresh
    /\ args \in JsonArgs
    /\ world = Quiet

JsonEnds ==
    /\ proc' = NoProc
    /\ stdout' = <<>>
    /\ logged' = <<>>
    /\ opened' = NoOpen
    /\ UNCHANGED <<installed, world, args, exited, exitCode>>

JsonStoreCall ==
    /\ ~exited
    /\ args.fn = "json"
    /\ LET r == json_store(fs, args.outputfile, args.jsonobject) IN
          /\ op' = "json_store"
          /\ ret' = r.ret
          /\ fs' = [fs EXCEPT ![args.outputfile] = r.file]
          /\ stored' = [stored EXCEPT ![args.outputfile] =
                           [called |-> TRUE, ok |-> r.ret.kind = "none",
                            obj |-> args.jsonobject]]
    /\ JsonEnds

JsonLoadCall ==
    /\ ~exited
    /\ args.fn = "json"
    /\ op' = "json_load"
    /\ ret' = json_load(fs, args.jsonfile)
    /\ UNCHANGED <<fs, stored>>
    /\ JsonEnds

NextJson == JsonStoreCall \/ JsonLoadCall

SpecJson == InitJson /\ [][NextJson]_vars

\* C9: for every mapping json_store accepts, mappings with keys that are
\* not strings and nested mappings included, json_load of a path after
\* json_store of the mapping to that path returns a value equal to it.
C9_RoundTrip ==
    (op = "json_load" /\ stored[args.jsonfile].ok) =>
        ret = RetValue(stored[args.jsonfile].obj)

RECURSIVE StrKeyed(_)
\* every key of v, at every depth, is a str
StrKeyed(v) ==
    v.t = "dict" => \A k \in DOMAIN v.d : k.t = "str" /\ StrKeyed(v.d[k])

\* C9 as amended: for every mapping whose keys, at every depth, are
\* strings, json_store accepts it and json_load of the path after it
\* returns a value equal to the mapping.
C9_RoundTripOfStrKeys ==
    /\ (op = "json_store" /\ StrKeyed(args.jsonobject)) => ret = RetNone
    /\ (op = "json_load" /\ stored[args.jsonfile].called
          /\ StrKeyed(stored[args.jsonfile].obj)) =>
             ret = RetValue(stored[args.jsonfile].obj)

\* A mapping of two str keys, one value a mapping, stored over a file that
\* was there before, and loaded.
C9_Witness ==
    /\ op = "json_load" /\ stored[args.jsonfile].called
    /\ StrKeyed(stored[args.jsonfile].obj)
    /\ Cardinality(DOMAIN stored[args.jsonfile].obj.d) = 2
    /\ \E k \in DOMAIN stored[args.jsonfile].obj.d :
          stored[args.jsonfile].obj.d[k].t = "dict"
          /\ stored[args.jsonfile].obj.d[k].d # <<>>
    /\ ret = RetValue(stored[args.jsonfile].obj)

====
